---- MODULE Spec2Model ----
(***************************************************************************)
(* Startup and main control path of runserver.py (PokemonGo-Map).          *)
(*                                                                         *)
(* The model follows the __main__ block statement by statement: the early  *)
(* exits, the location parsing loop, the binding of accounts to locations, *)
(* the storage initialisation, the creation of the pause Event, the start  *)
(* of the search thread, the hand-over of the Event to the web app and the *)
(* final "serve or wait" branch.                                           *)
(*                                                                         *)
(* Code of the repository that runserver.py only calls (pogom.search,      *)
(* pogom.app, the PogoWorker class) is not part of the source under study; *)
(* the few steps of it the properties need are modelled from the written   *)
(* specification and are marked so where they are defined. runserver.py    *)
(* uses the name PogoWorker without importing it; the model takes the name *)
(* to resolve to the repository's location class.                          *)
(***************************************************************************)
EXTENDS Integers, Sequences, FiniteSets, TLC

\* ---------------------------------------------------------------- bounds
MaxLocations == 2   \* entries of args.location.split("|")
MaxAccounts == 3    \* entries of args.accounts
MaxScans == 2       \* scan calls a run of the model follows

\* ------------------------------------------------------------- constants
NoAccount == 0      \* a location with no account bound
NoEvent == 0        \* None / no reference to an Event
AccountIds == 1..MaxAccounts
LocationForms == {"coords", "name"}   \* matches the lat/lng pattern, or not

Min(a, b) == IF a < b THEN a ELSE b

\* Sequences without repetition over S, of length at most n.
InjSeqs(S, n) ==
  UNION { { s \in [1..k -> S] : \A i, j \in 1..k : i # j => s[i] # s[j] } : k \in 0..n }

\* Non-empty sequences over S, of length at most n ("".split("|") has one entry).
NonEmptySeqs(S, n) == UNION { [1..k -> S] : k \in 1..n }

VARIABLES
  args,            \* get_args(): location (split), accounts, no_server, only_server, mock
  encLibFound,     \* get_encryption_lib_path() returned a path
  distExists,      \* static/dist exists
  pc,              \* position of the main control path
  exitStatus,      \* process exit status; -1 while running
  exitAt,          \* the statement that ended the main control path
  exception,       \* the uncaught exception, "none" if none
  locations,       \* the list `locations`
  bindIdx,         \* accounts enumerated so far by the binding loop
  warned,          \* the "fever accounts than locations" warning was logged
  netCalls,        \* util.get_pos_by_name calls (live geocoding requests)
  dbInit,          \* init_database / create_tables were called
  appLocations,    \* what app.set_locations received
  events,          \* the Event objects created; events[e] is e's flag
  pause_bit,       \* the variable pause_bit (an index of events)
  appControl,      \* what app.set_search_control received
  threadState,     \* search_thread: undefined, alive, dead, killed
  threadTarget,    \* search_thread's target function
  threadPause,     \* the Event search_thread's args carry
  threadDaemon,    \* search_thread.daemon
  mockInserts,     \* insert_mock_data calls
  scanCalls        \* scan calls issued by the search thread's workers

vars == << args, encLibFound, distExists, pc, exitStatus, exitAt, exception,
           locations, bindIdx, warned, netCalls, dbInit, appLocations, events,
           pause_bit, appControl, threadState, threadTarget, threadPause,
           threadDaemon, mockInserts, scanCalls >>

mainVars == << pc, exitStatus, exitAt, exception >>
bindVars == << locations, bindIdx, warned, netCalls >>
storeVars == << dbInit, appLocations >>
eventVars == << events, pause_bit, appControl >>
threadVars == << threadState, threadTarget, threadPause, threadDaemon, mockInserts >>
inputVars == << args, encLibFound, distExists >>

Init ==
  /\ args \in [ location : NonEmptySeqs(LocationForms, MaxLocations),
                accounts : InjSeqs(AccountIds, MaxAccounts),
                no_server : BOOLEAN, only_server : BOOLEAN, mock : BOOLEAN ]
  /\ encLibFound \in BOOLEAN
  /\ distExists \in BOOLEAN
  /\ pc = "enc_lib"
  /\ exitStatus = -1
  /\ exitAt = "none"
  /\ exception = "none"
  /\ locations = << >>
  /\ bindIdx = 0
  /\ warned = FALSE
  /\ netCalls = 0
  /\ dbInit = FALSE
  /\ appLocations = << >>
  /\ events = << >>
  /\ pause_bit = NoEvent
  /\ appControl = NoEvent
  /\ threadState = "undefined"
  /\ threadTarget = "none"
  /\ threadPause = NoEvent
  /\ threadDaemon = FALSE
  /\ mockInserts = 0
  /\ scanCalls = 0

\* sys.exit(status) at the statement `at`.
SysExit(status, at) ==
  /\ pc' = "exited"
  /\ exitStatus' = status
  /\ exitAt' = at
  /\ exception' = exception

\* An exception nobody catches: the interpreter prints it and exits with 1.
Raise(exc, at) ==
  /\ pc' = "crashed"
  /\ exitStatus' = 1
  /\ exitAt' = at
  /\ exception' = exc

Goto(label) ==
  /\ pc' = label
  /\ UNCHANGED << exitStatus, exitAt, exception >>

\* encryption_lib_path = get_encryption_lib_path(); exit 1 when it is "".
CheckEncryptionLib ==
  /\ pc = "enc_lib"
  /\ IF encLibFound THEN Goto("assets") ELSE SysExit(1, "enc_lib")
  /\ UNCHANGED << inputVars, bindVars, storeVars, eventVars, threadVars, scanCalls >>

\* With a web server, static/dist must exist; sys.exit() has no argument.
CheckAssets ==
  /\ pc = "assets"
  /\ IF ~args.no_server /\ ~distExists THEN SysExit(0, "assets") ELSE Goto("parse")
  /\ UNCHANGED << inputVars, bindVars, storeVars, eventVars, threadVars, scanCalls >>

\* PogoWorker(lat, lng, alt): a location, with no account yet. `src` is the
\* entry of parsed_locations it was made from.
PogoWorker(src) == [ src |-> src, account |-> NoAccount ]

\* One iteration of `for location in parsed_locations`.
ParseLocation ==
  /\ pc = "parse"
  /\ LET n == Len(locations) + 1
     IN /\ n <= Len(args.location)
        /\ netCalls' = IF args.location[n] = "coords" THEN netCalls ELSE netCalls + 1
        /\ locations' = Append(locations, PogoWorker(n))
        /\ Goto(IF n = Len(args.location) THEN "truncate" ELSE "parse")
  /\ UNCHANGED << inputVars, bindIdx, warned, storeVars, eventVars, threadVars, scanCalls >>

\* while len(args.accounts) < len(locations): locations.pop()
RECURSIVE PopExcess(_, _)
PopExcess(locs, nAccounts) ==
  IF nAccounts < Len(locs)
    THEN PopExcess(SubSeq(locs, 1, Len(locs) - 1), nAccounts)
    ELSE locs

\* if len(args.accounts) < len(locations): warn, and pop the extra locations.
TruncateLocations ==
  /\ pc = "truncate"
  /\ warned' = (Len(args.accounts) < Len(locations))
  /\ locations' = PopExcess(locations, Len(args.accounts))
  /\ Goto(IF Len(args.accounts) = 0 THEN "check_empty" ELSE "bind")
  /\ UNCHANGED << inputVars, bindIdx, netCalls, storeVars, eventVars, threadVars, scanCalls >>

\* PogoWorker.add_account(account)
AddAccount(loc, account) == [ loc EXCEPT !.account = account ]

\* One iteration of `for i, account in enumerate(args.accounts)`:
\* locations[i].add_account(account), an IndexError when i is past the list.
BindAccount ==
  /\ pc = "bind"
  /\ LET i == bindIdx + 1
     IN IF i > Len(locations)
          THEN /\ Raise("IndexError", "bind")
               /\ UNCHANGED << locations, bindIdx >>
          ELSE /\ locations' = [ locations EXCEPT ![i] = AddAccount(@, args.accounts[i]) ]
               /\ bindIdx' = i
               /\ Goto(IF i = Len(args.accounts) THEN "check_empty" ELSE "bind")
  /\ UNCHANGED << inputVars, warned, netCalls, storeVars, eventVars, threadVars, scanCalls >>

\* The empty list is let through.
CheckLocations_NoAbort ==
  /\ pc = "check_empty"
  /\ Goto("init_db")
  /\ UNCHANGED << inputVars, bindVars, storeVars, eventVars, threadVars, scanCalls >>

\* if not locations: log.error(...); sys.exit()
CheckLocations ==
  /\ pc = "check_empty"
  /\ IF Len(locations) = 0 THEN SysExit(0, "no_locations") ELSE Goto("init_db")
  /\ UNCHANGED << inputVars, bindVars, storeVars, eventVars, threadVars, scanCalls >>

\* app = Pogom(); init_database; create_tables; app.set_locations(locations)
InitDatabase ==
  /\ pc = "init_db"
  /\ dbInit' = TRUE
  /\ appLocations' = locations
  /\ Goto("pause_bit")
  /\ UNCHANGED << inputVars, bindVars, eventVars, threadVars, scanCalls >>

\* pause_bit = Event(); pause_bit.clear()
CreatePauseBit ==
  /\ pc = "pause_bit"
  /\ events' = Append(events, FALSE)
  /\ pause_bit' = Len(events) + 1
  /\ Goto("search")
  /\ UNCHANGED << inputVars, bindVars, storeVars, appControl, threadVars, scanCalls >>

\* The search thread is handed an Event of its own instead of pause_bit.
StartSearchThread_OwnEvent ==
  /\ pc = "search"
  /\ IF ~args.only_server
       THEN /\ IF ~args.mock
                 THEN /\ threadTarget' = "search_overseer_thread"
                      /\ events' = Append(events, FALSE)
                      /\ threadPause' = Len(events) + 1
                      /\ mockInserts' = mockInserts
                      /\ Goto("control")
                 ELSE IF Len(locations) = 0
                   THEN /\ Raise("IndexError", "search")
                        /\ UNCHANGED << threadTarget, threadPause, mockInserts, events >>
                   ELSE /\ mockInserts' = mockInserts + 1
                        /\ threadTarget' = "fake_search_loop"
                        /\ threadPause' = NoEvent
                        /\ events' = events
                        /\ Goto("control")
            /\ threadDaemon' = (pc' = "control")
            /\ threadState' = IF pc' = "control" THEN "alive" ELSE "undefined"
       ELSE /\ Goto("control")
            /\ UNCHANGED << threadVars, events >>
  /\ UNCHANGED << inputVars, bindVars, storeVars, pause_bit, appControl, scanCalls >>

\* if not args.only_server: create the real or the fake search thread (the
\* fake one after insert_mock_data(locations[0])), make it a daemon, start it.
StartSearchThread ==
  /\ pc = "search"
  /\ IF ~args.only_server
       THEN /\ IF ~args.mock
                 THEN /\ threadTarget' = "search_overseer_thread"
                      /\ threadPause' = pause_bit
                      /\ mockInserts' = mockInserts
                      /\ Goto("control")
                 ELSE IF Len(locations) = 0
                   THEN /\ Raise("IndexError", "search")
                        /\ UNCHANGED << threadTarget, threadPause, mockInserts >>
                   ELSE /\ mockInserts' = mockInserts + 1
                        /\ threadTarget' = "fake_search_loop"
                        /\ threadPause' = NoEvent
                        /\ Goto("control")
            /\ threadDaemon' = (pc' = "control")
            /\ threadState' = IF pc' = "control" THEN "alive" ELSE "undefined"
       ELSE /\ Goto("control")
            /\ UNCHANGED threadVars
  /\ UNCHANGED << inputVars, bindVars, storeVars, eventVars, scanCalls >>

\* The web app is handed a new Event instead of pause_bit.
SetSearchControl_NewEvent ==
  /\ pc = "control"
  /\ events' = Append(events, FALSE)
  /\ appControl' = Len(events) + 1
  /\ Goto("run")
  /\ UNCHANGED << inputVars, bindVars, storeVars, pause_bit, threadVars, scanCalls >>

\* CORS, cache busting, app.set_search_control(pause_bit), config.
SetSearchControl ==
  /\ pc = "control"
  /\ appControl' = pause_bit
  /\ Goto("run")
  /\ UNCHANGED << inputVars, bindVars, storeVars, events, pause_bit, threadVars, scanCalls >>

\* if args.no_server: the wait loop; else: app.run(...)
EnterRunMode ==
  /\ pc = "run"
  /\ Goto(IF args.no_server THEN "wait_loop" ELSE "app_run")
  /\ UNCHANGED << inputVars, bindVars, storeVars, eventVars, threadVars, scanCalls >>

\* while search_thread.is_alive(): time.sleep(60) -- the test of the loop.
\* The name search_thread is unbound when no thread was created; the loop
\* ends, and with it the program, when the thread is no longer alive.
WaitLoopTest ==
  /\ pc = "wait_loop"
  /\ threadState # "alive"
  /\ IF threadState = "undefined"
       THEN Raise("NameError", "wait_loop")
       ELSE SysExit(0, "thread_dead")
  /\ UNCHANGED << inputVars, bindVars, storeVars, eventVars, threadVars, scanCalls >>

\* ctrl-c during time.sleep(60): KeyboardInterrupt ends the main thread.
KeyboardInterrupt ==
  /\ pc = "wait_loop"
  /\ threadState = "alive"
  /\ Raise("KeyboardInterrupt", "wait_loop")
  /\ UNCHANGED << inputVars, bindVars, storeVars, eventVars, threadVars, scanCalls >>

\* app.run(...) returns when the web server is shut down; the module ends.
AppRunReturns ==
  /\ pc = "app_run"
  /\ SysExit(0, "app_run")
  /\ UNCHANGED << inputVars, bindVars, storeVars, eventVars, threadVars, scanCalls >>

\* search_thread.daemon = True: the interpreter ends the thread, as it is,
\* once the main thread is over.
DaemonKilled ==
  /\ pc \in {"exited", "crashed"}
  /\ threadState = "alive"
  /\ threadDaemon
  /\ threadState' = "killed"
  /\ UNCHANGED << inputVars, mainVars, bindVars, storeVars, eventVars,
                  threadTarget, threadPause, threadDaemon, mockInserts, scanCalls >>

\* ------------------------------------------------------------------------
\* The collaborators of runserver.py, from the written specification.

\* The thread's target returns or raises (all its workers have failed).
ThreadDies ==
  /\ threadState = "alive"
  /\ threadState' = "dead"
  /\ UNCHANGED << inputVars, mainVars, bindVars, storeVars, eventVars,
                  threadTarget, threadPause, threadDaemon, mockInserts, scanCalls >>

\* One cycle of a worker of search_overseer_thread: test the pause signal it
\* was given and, when it is clear, issue a scan call. fake_search_loop
\* fabricates nothing after startup and issues no scan call.
WorkerScan ==
  /\ threadState = "alive"
  /\ threadTarget = "search_overseer_thread"
  /\ threadPause # NoEvent
  /\ ~events[threadPause]
  /\ scanCalls < MaxScans
  /\ scanCalls' = scanCalls + 1
  /\ UNCHANGED << inputVars, mainVars, bindVars, storeVars, eventVars, threadVars >>

\* pause() of the control surface, served by the running web server.
Pause ==
  /\ pc = "app_run"
  /\ appControl # NoEvent
  /\ ~events[appControl]
  /\ events' = [ events EXCEPT ![appControl] = TRUE ]
  /\ UNCHANGED << inputVars, mainVars, bindVars, storeVars, pause_bit, appControl,
                  threadVars, scanCalls >>

\* resume() of the control surface.
Resume ==
  /\ pc = "app_run"
  /\ appControl # NoEvent
  /\ events[appControl]
  /\ events' = [ events EXCEPT ![appControl] = FALSE ]
  /\ UNCHANGED << inputVars, mainVars, bindVars, storeVars, pause_bit, appControl,
                  threadVars, scanCalls >>

Next ==
  \/ CheckEncryptionLib
  \/ CheckAssets
  \/ ParseLocation
  \/ TruncateLocations
  \/ BindAccount
  \/ CheckLocations
  \/ InitDatabase
  \/ CreatePauseBit
  \/ StartSearchThread
  \/ SetSearchControl
  \/ EnterRunMode
  \/ WaitLoopTest
  \/ KeyboardInterrupt
  \/ AppRunReturns
  \/ DaemonKilled
  \/ ThreadDies
  \/ WorkerScan
  \/ Pause
  \/ Resume

Spec == Init /\ [][Next]_vars

TypeOK ==
  /\ pc \in {"enc_lib", "assets", "parse", "truncate", "bind", "check_empty", "init_db",
             "pause_bit", "search", "control", "run", "wait_loop", "app_run",
             "exited", "crashed"}
  /\ exitStatus \in {-1, 0, 1}
  /\ threadState \in {"undefined", "alive", "dead", "killed"}
  /\ pause_bit \in 0..Len(events)
  /\ appControl \in 0..Len(events)
  /\ threadPause \in 0..Len(events)
  /\ scanCalls \in 0..MaxScans

\* ------------------------------------------------------------------------
\* Properties.

\* The main control path is past the binding loop (it left it normally).
BindingFinished ==
  /\ pc \notin {"enc_lib", "assets", "parse", "truncate", "bind"}
  /\ exitAt \notin {"enc_lib", "assets", "bind"}

\* The pause signal is set.
PauseSet == pause_bit # NoEvent /\ events[pause_bit]

\* C1: for every list of locations and every list of accounts (more accounts
\* than locations included) the binding step completes, and it leaves exactly
\* min(len(L), len(A)) locations: the first ones of L, in order, the i-th
\* bound to the i-th account.
C1_BinderYieldsMinPairs ==
  /\ ~(pc = "crashed" /\ exitAt = "bind")
  /\ BindingFinished =>
       /\ Len(locations) = Min(Len(args.location), Len(args.accounts))
       /\ \A i \in 1..Len(locations) :
            /\ locations[i].src = i
            /\ locations[i].account = args.accounts[i]

\* C2: when binding leaves no location, the process ends with a non-zero
\* exit status.
C2_NoLocationsExitsNonZero ==
  (pc = "exited" /\ exitAt = "no_locations") => exitStatus # 0

\* C3: the search thread is started, mock data inserted and the storage
\* initialised only after binding has finished with at least one bound
\* (location, account) pair; with zero pairs none of the three happens.
C3_StartOnlyWithBoundPair ==
  (threadState # "undefined" \/ mockInserts > 0 \/ dbInit) =>
    /\ BindingFinished
    /\ Len(locations) >= 1
    /\ \A i \in 1..Len(locations) : locations[i].account = args.accounts[i]

\* A search thread runs, after the storage was initialised, on bound pairs.
C3_Witness ==
  /\ threadState = "alive"
  /\ dbInit
  /\ Len(locations) >= 1
  /\ locations[1].account # NoAccount

C5_MockThreadSharesPauseSignal ==
  (threadState # "undefined" /\ threadTarget = "fake_search_loop") =>
    (threadPause # NoEvent /\ threadPause = pause_bit)

\* C6: in mock mode there is no live network call at any point, whatever the
\* form of the location argument, no scan call, and the fake search thread
\* runs after exactly one insert_mock_data call.
C6_MockOneResultNoNetwork ==
  args.mock =>
    /\ netCalls = 0
    /\ scanCalls = 0
    /\ mockInserts <= 1
    /\ threadTarget = "fake_search_loop" => mockInserts = 1

\* C7: the main control path never returns while the search thread is still
\* running (the program has no stop signal and no join: its one Event is
\* pause_bit, so a thread running at that point was never signalled).
C7_NoReturnWhileWorkerRuns ==
  pc \in {"exited", "crashed"} => threadState # "alive"

\* C8: the main control path never ends because the search thread stopped.
C8_HostSurvivesDeadWorkers ==
  ~(pc = "exited" /\ exitAt = "thread_dead")

\* C9: one pause Event exists; it is created, clear, before the search thread
\* starts and stays clear until the control surface has it; the overseer
\* thread and the control surface hold that same Event.
C9_OneSharedPauseSignal ==
  /\ Len(events) <= 1
  /\ threadState # "undefined" => pause_bit # NoEvent
  /\ threadTarget = "search_overseer_thread" => threadPause = pause_bit
  /\ appControl # NoEvent => appControl = pause_bit
  /\ (pause_bit # NoEvent /\ appControl = NoEvent) => ~events[pause_bit]

\* The control surface has set the signal the running overseer thread tests.
C9_Witness ==
  /\ appControl # NoEvent
  /\ threadState = "alive"
  /\ threadTarget = "search_overseer_thread"
  /\ events[appControl]
  /\ events[threadPause]

\* C10: whatever the flags, the main control path never waits on, or names,
\* a search thread that was not created and started.
C10_WaitsOnlyOnStartedThread ==
  /\ exception # "NameError"
  /\ pc = "wait_loop" => threadState # "undefined"

====
